---- MODULE Spec2Model ----
(***************************************************************************)
(* Model of the Player class (the playback controller) of discord-player:  *)
(* the session registry `queues`, the per-guild Queue objects, the delayed *)
(* attach of a stream to the voice connection, and the start / finish      *)
(* signals of the stream dispatcher that drive _playTrack.                 *)
(***************************************************************************)
EXTENDS Integers, Sequences, FiniteSets, TLC

\* ---------------------------------------------------------------- bounds
\* number of commands issued in one behaviour
MaxCmds == 3
\* largest dispatcher.streamTime (in seconds) the model counts to
MaxStreamTime == 1

\* ---------------------------------------------------------------- values
Null == "null"
Undefined == "undefined"
Tracks == {"A", "B", "C"}
\* the voice channel the bot plays in, and its guild
Channels == {"c1"}
\* voiceChannel.guild.id of a voice channel
GuildOf(c) == "g1"
\* the guild ids commands are issued for: g2 is a guild nothing plays in
Guilds == {"g1", "g2"}
\* the voiceStateUpdate events: a member leaves c1 and the bot stays alone or
\* not, a member leaves another channel, joins c1, moves from c1 to c2
VoiceStateUpdates ==
    {[old |-> "c1", new |-> Null, size |-> 1], [old |-> "c1", new |-> Null, size |-> 2],
     [old |-> "c2", new |-> Null, size |-> 1], [old |-> Null, new |-> "c1", size |-> 2],
     [old |-> "c1", new |-> "c2", size |-> 1]}
Users == {"u1"}
\* the Track objects searchTracks creates for a query
Found == {"S", "T"}
Queries == {"query"}
\* the Track objects callers hand to play() and to setQueue()
PlayTracks == {"A"}
\* the arrays handed to setQueue()
QueueArgs == {<<>>, <<"B">>, <<"B", "C">>, <<"B", "B">>, <<"B", "C", "B">>}

\* the keys of the module-level `filters` table
filters ==
    {"bassboost", "8D", "vaporwave", "nightcore", "phaser", "tremolo",
     "reverse", "treble", "normalizer", "surrounding", "pulsator", "subboost"}

defaultPlayerOptions ==
    [leaveOnEnd |-> TRUE, leaveOnStop |-> TRUE, leaveOnEmpty |-> TRUE]

\* argument maps handed to updateFilters(): any object, its keys need not be
\* keys of `filters`
NewFiltersArgs ==
    {[f \in {"bassboost"} |-> TRUE], [f \in {"bassboost"} |-> FALSE],
     [f \in {"echo"} |-> TRUE]}

VARIABLES
    queues,      \* this.queues: the registered Queue objects (ids into objs), in order
    objs,        \* every Queue object created so far, registered or not
    options,     \* this.options
    joined,      \* channels with a live voice connection
    dispatcher,  \* per channel: the connection's current stream dispatcher
    timers,      \* pending setTimeout callbacks of _playYTDLStream, in firing order
    calls,       \* play() calls suspended at an await
    requestedBy, \* Track.requestedBy of every track object
    emitted,     \* events emitted by the last step
    result,      \* the command the last step ran: how its promise settled, its value
    ncmds        \* commands issued so far

vars == <<queues, objs, options, joined, dispatcher, timers, calls,
          requestedBy, emitted, result, ncmds>>

\* ------------------------------------------------------------ structures
\* new Queue(guildID)
NewQueue(guildID) ==
    [guildID |-> guildID, voiceConnection |-> Null, tracks |-> <<>>,
     playing |-> Null, filters |-> [f \in {} |-> FALSE], volume |-> 100,
     paused |-> FALSE, stopped |-> FALSE, repeatMode |-> FALSE,
     lastSkipped |-> FALSE]

\* connection.dispatcher when no stream is attached
NoDispatcher ==
    [alive |-> FALSE, qid |-> 0, track |-> Null, seek |-> 0, chain |-> {},
     started |-> FALSE, ended |-> FALSE, paused |-> FALSE, streamTime |-> 0,
     volume |-> 0, emit |-> FALSE, nowPlaying |-> Null, wasPlaying |-> Null]

Event(type, qid) ==
    [type |-> type, qid |-> qid, nowPlaying |-> Null, wasPlaying |-> Null,
     lastSkipped |-> FALSE, repeatMode |-> FALSE]

\* the mutable world the handlers act on
World ==
    [queues |-> queues, objs |-> objs, options |-> options, joined |-> joined,
     dispatcher |-> dispatcher, timers |-> timers, emitted |-> <<>>]

Commit(w) ==
    /\ queues' = w.queues
    /\ objs' = w.objs
    /\ options' = w.options
    /\ joined' = w.joined
    /\ dispatcher' = w.dispatcher
    /\ timers' = w.timers
    /\ emitted' = w.emitted

Result(op, status, value) ==
    [op |-> op, status |-> status, value |-> value]

\* a step that is no command
NoResult == Result("-", "-", "-")

\* a lookup that takes the first registered queue whatever its key
find_anyKey(w, guildID) ==
    IF w.queues = <<>> THEN 0 ELSE Head(w.queues)

\* this.queues.find((g) => g.guildID === guildID); 0 when there is none
find(w, guildID) ==
    LET hits == SelectSeq(w.queues, LAMBDA id : w.objs[id].guildID = guildID)
    IN IF hits = <<>> THEN 0 ELSE Head(hits)

\* array[0] and array.shift() of a JS array
First(s) == IF s = <<>> THEN Undefined ELSE Head(s)
Shifted(s) == IF s = <<>> THEN <<>> ELSE Tail(s)

emit(w, e) == [w EXCEPT !.emitted = Append(@, e)]

\* voiceConnection.channel.leave(): the connection and its dispatcher are destroyed
leave(w, c) ==
    [w EXCEPT !.joined = @ \ {c}, !.dispatcher[c] = NoDispatcher]

\* --------------------------------------------------------------- streams
\* the setTimeout armed by one _playYTDLStream call
_playYTDLStream(w, qid, updateFilter, emitChange, nowPlaying, wasPlaying) ==
    LET queue == w.objs[qid]
        d == w.dispatcher[queue.voiceConnection]
    IN IF updateFilter /\ ~d.alive THEN w                  \* dispatcher is null: throws
       ELSE IF queue.playing \in {Null, Undefined} THEN w  \* playing.url: throws
       ELSE [w EXCEPT !.timers = Append(@,
                [qid |-> qid, track |-> queue.playing,
                 seek |-> IF updateFilter THEN d.streamTime ELSE 0,
                 chain |-> {f \in DOMAIN queue.filters : queue.filters[f]},
                 emit |-> emitChange, nowPlaying |-> nowPlaying,
                 wasPlaying |-> wasPlaying])]

\* the teardown test of _playTrack with the repeat mode left out
exhausted_ignoringRepeat(queue, firstPlay) ==
    Len(queue.tracks) < 2 /\ ~firstPlay

\* "if there isn't any music in the queue": line 484
exhausted(queue, firstPlay) ==
    Len(queue.tracks) < 2 /\ ~firstPlay /\ ~queue.repeatMode

\* a teardown that leaves the channel after every stop, whatever leaveOnStop
_playTrack_leavingOnEveryStop(w, guildID, firstPlay) ==
    LET qid == find(w, guildID) IN
    IF qid = 0 THEN w
    ELSE
    LET queue == w.objs[qid]
        c == queue.voiceConnection
    IN IF exhausted(queue, firstPlay)
       THEN LET w1 == IF w.options.leaveOnEnd /\ ~queue.stopped THEN leave(w, c) ELSE w
                w2 == [w1 EXCEPT !.queues =
                          SelectSeq(@, LAMBDA id : w.objs[id].guildID # guildID)]
            IN IF queue.stopped
               THEN emit(leave(w2, c), Event("stop", qid))
               ELSE emit(w2, Event("end", qid))
       ELSE LET wasPlaying == queue.playing
                nowPlaying == IF queue.repeatMode THEN wasPlaying ELSE First(queue.tracks)
                w1 == [w EXCEPT
                         !.objs[qid].tracks =
                             IF queue.repeatMode THEN @ ELSE Shifted(@),
                         !.objs[qid].playing = nowPlaying,
                         !.objs[qid].lastSkipped = FALSE]
            IN _playYTDLStream(w1, qid, FALSE, ~firstPlay, nowPlaying, wasPlaying)

\* lines 480-507
_playTrack(w, guildID, firstPlay) ==
    LET qid == find(w, guildID) IN
    IF qid = 0 THEN w                                      \* queue.tracks: throws
    ELSE
    LET queue == w.objs[qid]
        c == queue.voiceConnection
    IN IF exhausted(queue, firstPlay)
       THEN LET w1 == IF w.options.leaveOnEnd /\ ~queue.stopped THEN leave(w, c) ELSE w
                w2 == [w1 EXCEPT !.queues =
                          SelectSeq(@, LAMBDA id : w.objs[id].guildID # guildID)]
            IN IF queue.stopped
               THEN emit(IF w.options.leaveOnStop THEN leave(w2, c) ELSE w2,
                         Event("stop", qid))
               ELSE emit(w2, Event("end", qid))
       ELSE LET wasPlaying == queue.playing
                nowPlaying == IF queue.repeatMode THEN wasPlaying ELSE First(queue.tracks)
                w1 == [w EXCEPT
                         !.objs[qid].tracks =
                             IF queue.repeatMode THEN @ ELSE Shifted(@),
                         !.objs[qid].playing = nowPlaying,
                         !.objs[qid].lastSkipped = FALSE]
            IN _playYTDLStream(w1, qid, FALSE, ~firstPlay, nowPlaying, wasPlaying)

\* dispatcher.end() on a live dispatcher: its finish signal is delivered inside
\* the call (sync) or by a later FinishSignal step
end(w, c, sync) ==
    LET d == w.dispatcher[c] IN
    IF d.ended THEN w
    ELSE IF sync
         THEN _playTrack([w EXCEPT !.dispatcher[c] = NoDispatcher],
                         w.objs[d.qid].guildID, FALSE)
         ELSE [w EXCEPT !.dispatcher[c].ended = TRUE]


\* ------------------------------------------------------------- commands
\* every command counts against the command budget
Command(w, res) ==
    /\ Commit(w)
    /\ result' = res
    /\ ncmds' = ncmds + 1
    /\ UNCHANGED <<calls, requestedBy>>

NotPlaying(op, guildID) ==
    Command(World, Result(op, "rejected", "Not playing"))

\* the body of play()'s executor after its awaits: lines 134-149
playCreate(w, voiceChannel, track) ==
    LET qid == Len(w.objs) + 1
        queue == [NewQueue(GuildOf(voiceChannel)) EXCEPT
                     !.voiceConnection = voiceChannel,
                     !.filters = [f \in filters |-> FALSE],
                     !.tracks = <<track>>]
        w1 == [w EXCEPT !.objs = Append(@, queue), !.queues = Append(@, qid)]
    IN _playTrack(w1, queue.guildID, TRUE)

\* play() up to its first await: line 124, then lines 126-133
play(voiceChannel, track, user) ==
    /\ ncmds < MaxCmds
    /\ ncmds' = ncmds + 1
    /\ IF voiceChannel = Null
       THEN \* voiceChannel.id throws before the promise is created
            /\ Commit(World)
            /\ result' = Result("play", "thrown", "TypeError")
            /\ UNCHANGED <<calls, requestedBy>>
       ELSE LET w == [World EXCEPT !.queues =
                         SelectSeq(@, LAMBDA id : objs[id].guildID # voiceChannel)]
            IN IF voiceChannel \notin joined
               THEN /\ Commit(w)
                    /\ calls' = Append(calls, [voiceChannel |-> voiceChannel,
                                  track |-> track, user |-> user, pc |-> "join"])
                    /\ result' = Result("play", "awaiting", "join")
                    /\ UNCHANGED requestedBy
               ELSE IF track \notin Tracks
               THEN /\ Commit(w)
                    /\ calls' = Append(calls, [voiceChannel |-> voiceChannel,
                                  track |-> track, user |-> user, pc |-> "search"])
                    /\ result' = Result("play", "awaiting", "search")
                    /\ UNCHANGED requestedBy
               ELSE /\ Commit(playCreate(w, voiceChannel, track))
                    /\ requestedBy' = [requestedBy EXCEPT ![track] = user]
                    /\ result' = Result("play", "resolved", track)
                    /\ UNCHANGED calls

RemoveAt(s, i) == [j \in 1..(Len(s) - 1) |-> IF j < i THEN s[j] ELSE s[j + 1]]

\* voiceChannel.join() resolved: line 129, then lines 130-149
playJoined(i) ==
    /\ i \in 1..Len(calls)
    /\ calls[i].pc = "join"
    /\ LET call == calls[i]
           w == [World EXCEPT !.joined = @ \cup {call.voiceChannel}]
       IN IF call.track \notin Tracks
          THEN /\ Commit(w)
               /\ calls' = [calls EXCEPT ![i].pc = "search"]
               /\ result' = Result("play", "awaiting", "search")
               /\ UNCHANGED requestedBy
          ELSE /\ Commit(playCreate(w, call.voiceChannel, call.track))
               /\ requestedBy' = [requestedBy EXCEPT ![call.track] = call.user]
               /\ calls' = RemoveAt(calls, i)
               /\ result' = Result("play", "resolved", call.track)
    /\ UNCHANGED ncmds

\* what ytsr hands to the callback of searchTracks
SearchOutcomes ==
    {[err |-> TRUE, results |-> <<>>], [err |-> FALSE, results |-> <<>>],
     [err |-> FALSE, results |-> <<"S">>], [err |-> FALSE, results |-> <<"S", "T">>]}

\* searchTracks() called back: lines 99-103, then lines 131-149
playSearched(i, outcome) ==
    /\ i \in 1..Len(calls)
    /\ calls[i].pc = "search"
    /\ calls' = RemoveAt(calls, i)
    /\ LET call == calls[i]
           track == First(outcome.results)
       IN IF outcome.err \/ track = Undefined
          THEN \* never called back, or track.requestedBy throws in the async executor
               /\ Commit(World)
               /\ result' = Result("play", "pending", Undefined)
               /\ UNCHANGED requestedBy
          ELSE /\ Commit(playCreate(World, call.voiceChannel, track))
               /\ requestedBy' = [requestedBy EXCEPT ![track] = call.user]
               /\ result' = Result("play", "resolved", track)
    /\ UNCHANGED ncmds

\* updateFilters restarting through the track-advance logic
updateFilters_advancing(guildID, newFilters) ==
    /\ ncmds < MaxCmds
    /\ LET qid == find(World, guildID) IN
       IF qid = 0 THEN NotPlaying("updateFilters", guildID)
       ELSE LET queue == objs[qid]
                merged == [f \in DOMAIN queue.filters \cup DOMAIN newFilters |->
                              IF f \in DOMAIN newFilters THEN newFilters[f]
                              ELSE queue.filters[f]]
                w == [World EXCEPT !.objs[qid].filters = merged]
            IN Command(_playTrack(w, guildID, FALSE),
                       Result("updateFilters", "pending", Undefined))

updateFilters(guildID, newFilters) ==
    /\ ncmds < MaxCmds
    /\ LET qid == find(World, guildID) IN
       IF qid = 0 THEN NotPlaying("updateFilters", guildID)
       ELSE LET queue == objs[qid]
                merged == [f \in DOMAIN queue.filters \cup DOMAIN newFilters |->
                              IF f \in DOMAIN newFilters THEN newFilters[f]
                              ELSE queue.filters[f]]
                w == [World EXCEPT !.objs[qid].filters = merged]
            IN Command(_playYTDLStream(w, qid, TRUE, FALSE, Null, Null),
                       Result("updateFilters", "pending", Undefined))

pause(guildID) ==
    /\ ncmds < MaxCmds
    /\ LET qid == find(World, guildID) IN
       IF qid = 0 THEN NotPlaying("pause", guildID)
       ELSE LET queue == objs[qid]
                c == queue.voiceConnection
            IN IF ~dispatcher[c].alive
               THEN Command(World, Result("pause", "rejected", "TypeError"))
               ELSE Command([World EXCEPT !.dispatcher[c].paused = TRUE,
                                          !.objs[qid].paused = TRUE],
                            Result("pause", "resolved", First(queue.tracks)))

resume(guildID) ==
    /\ ncmds < MaxCmds
    /\ LET qid == find(World, guildID) IN
       IF qid = 0 THEN NotPlaying("resume", guildID)
       ELSE LET queue == objs[qid]
                c == queue.voiceConnection
            IN IF ~dispatcher[c].alive
               THEN Command(World, Result("resume", "rejected", "TypeError"))
               ELSE Command([World EXCEPT !.dispatcher[c].paused = FALSE,
                                          !.objs[qid].paused = FALSE],
                            Result("resume", "resolved", First(queue.tracks)))

stop(guildID, sync) ==
    /\ ncmds < MaxCmds
    /\ LET qid == find(World, guildID) IN
       IF qid = 0 THEN NotPlaying("stop", guildID)
       ELSE LET c == objs[qid].voiceConnection
                w == [World EXCEPT !.objs[qid].stopped = TRUE,
                                   !.objs[qid].tracks = <<>>]
            IN IF ~dispatcher[c].alive
               THEN Command(w, Result("stop", "rejected", "TypeError"))
               ELSE Command(end(w, c, sync),
                            Result("stop", "resolved", Undefined))

Percents == {50}

setVolume(guildID, percent) ==
    /\ ncmds < MaxCmds
    /\ LET qid == find(World, guildID) IN
       IF qid = 0 THEN NotPlaying("setVolume", guildID)
       ELSE LET c == objs[qid].voiceConnection
            IN IF ~dispatcher[c].alive
               THEN Command(World, Result("setVolume", "rejected", "TypeError"))
               ELSE Command([World EXCEPT !.dispatcher[c].volume = percent,
                                          !.objs[qid].volume = percent],
                            Result("setVolume", "resolved", Undefined))

getQueue(guildID) ==
    /\ ncmds < MaxCmds
    /\ Command(World, Result("getQueue", "returned",
                  IF find(World, guildID) = 0 THEN Undefined ELSE "Queue"))

isPlaying(guildID) ==
    /\ ncmds < MaxCmds
    /\ Command(World, Result("isPlaying", "returned",
                  IF \E i \in 1..Len(queues) : objs[queues[i]].guildID = guildID
                  THEN "true" ELSE "false"))

addToQueue(guildID, trackName, user) ==
    /\ ncmds < MaxCmds
    /\ LET qid == find(World, guildID) IN
       IF qid = 0 THEN NotPlaying("addToQueue", guildID)
       ELSE \* this.search is not a function
            Command(World, Result("addToQueue", "rejected", "TypeError"))

setQueue(guildID, tracks) ==
    /\ ncmds < MaxCmds
    /\ LET qid == find(World, guildID) IN
       IF qid = 0 THEN NotPlaying("setQueue", guildID)
       ELSE Command([World EXCEPT !.objs[qid].tracks = tracks],
                    Result("setQueue", "resolved", "Queue"))

clearQueue(guildID) ==
    /\ ncmds < MaxCmds
    /\ LET qid == find(World, guildID) IN
       IF qid = 0 THEN NotPlaying("clearQueue", guildID)
       ELSE Command([World EXCEPT !.objs[qid].tracks = <<First(@)>>],
                    Result("clearQueue", "resolved", "Queue"))

skip(guildID, sync) ==
    /\ ncmds < MaxCmds
    /\ LET qid == find(World, guildID) IN
       IF qid = 0 THEN NotPlaying("skip", guildID)
       ELSE LET c == objs[qid].voiceConnection
                currentTrack == First(objs[qid].tracks)
            IN IF ~dispatcher[c].alive
               THEN Command(World, Result("skip", "rejected", "TypeError"))
               ELSE Command([end(World, c, sync) EXCEPT !.objs[qid].lastSkipped = TRUE],
                            Result("skip", "resolved", currentTrack))

nowPlaying(guildID) ==
    /\ ncmds < MaxCmds
    /\ LET qid == find(World, guildID) IN
       IF qid = 0 THEN NotPlaying("nowPlaying", guildID)
       ELSE Command(World, Result("nowPlaying", "resolved",
                                First(objs[qid].tracks)))

setRepeatMode(guildID, enabled) ==
    /\ ncmds < MaxCmds
    /\ LET qid == find(World, guildID) IN
       IF qid = 0 THEN NotPlaying("setRepeatMode", guildID)
       ELSE Command([World EXCEPT !.objs[qid].repeatMode = enabled],
                    Result("setRepeatMode", "resolved", Undefined))

\* the orders Array.sort can leave under a random comparator
SortOrders(s) ==
    {[i \in 1..Len(s) |-> s[p[i]]] :
        p \in {f \in [1..Len(s) -> 1..Len(s)] :
                  \A i, j \in 1..Len(s) : i # j => f[i] # f[j]}}

shuffle(guildID) ==
    /\ ncmds < MaxCmds
    /\ LET qid == find(World, guildID) IN
       IF qid = 0 THEN NotPlaying("shuffle", guildID)
       ELSE LET currentTrack == First(objs[qid].tracks)
            IN \E rest \in SortOrders(Shifted(objs[qid].tracks)) :
                  Command([World EXCEPT !.objs[qid].tracks = <<currentTrack>> \o rest],
                          Result("shuffle", "resolved", "Queue"))

\* queue.tracks.filter((t) => t !== trackFound)
Without(s, x) == SelectSeq(s, LAMBDA t : t # x)

\* the second argument of remove(): a number (an index from 0) or a Track
RemoveArgs ==
    {[isNumber |-> TRUE, index |-> i, ref |-> Null] : i \in 0..2}
    \cup {[isNumber |-> FALSE, index |-> 0, ref |-> t] : t \in {"A", "B"}}

remove(guildID, track) ==
    /\ ncmds < MaxCmds
    /\ LET qid == find(World, guildID) IN
       IF qid = 0 THEN NotPlaying("remove", guildID)
       ELSE LET tracks == objs[qid].tracks
                trackFound ==
                    IF track.isNumber
                    THEN IF track.index < Len(tracks)
                         THEN tracks[track.index + 1] ELSE Undefined
                    ELSE IF \E i \in 1..Len(tracks) : tracks[i] = track.ref
                         THEN track.ref ELSE Undefined
            IN Command([World EXCEPT !.objs[qid].tracks =
                           IF trackFound # Undefined THEN Without(@, trackFound) ELSE @],
                       Result("remove", "resolved", trackFound))


\* ---------------------------------------------- signals of the transport
\* the setTimeout callback of _playYTDLStream: lines 455-469.  connection.play()
\* replaces the connection's dispatcher; the replaced one emits no finish.
attach ==
    /\ timers # <<>>
    /\ LET t == Head(timers)
           queue == objs[t.qid]
           c == queue.voiceConnection
       IN /\ Commit([World EXCEPT
                 !.timers = Tail(@),
                 !.dispatcher[c] =
                     [alive |-> TRUE, qid |-> t.qid, track |-> t.track,
                      seek |-> t.seek, chain |-> t.chain, started |-> FALSE,
                      ended |-> FALSE, paused |-> FALSE, streamTime |-> 0,
                      volume |-> queue.volume, emit |-> t.emit,
                      nowPlaying |-> t.nowPlaying, wasPlaying |-> t.wasPlaying]])
          /\ result' = NoResult
    /\ UNCHANGED <<calls, requestedBy, ncmds>>

\* the dispatcher's start signal: line 462, then lines 502-505
start(c) ==
    /\ dispatcher[c].alive
    /\ ~dispatcher[c].started
    /\ ~dispatcher[c].ended
    /\ LET d == dispatcher[c]
           queue == objs[d.qid]
           w == [World EXCEPT !.dispatcher[c].started = TRUE]
       IN Commit(IF d.emit
                 THEN emit(w, [type |-> "trackChanged", qid |-> d.qid,
                               nowPlaying |-> d.nowPlaying,
                               wasPlaying |-> d.wasPlaying,
                               lastSkipped |-> queue.lastSkipped,
                               repeatMode |-> queue.repeatMode])
                 ELSE w)
    /\ result' = NoResult
    /\ UNCHANGED <<calls, requestedBy, ncmds>>

\* the dispatcher's finish signal, at the end of the stream or after end(): line 467
finish(c) ==
    /\ dispatcher[c].alive
    /\ dispatcher[c].ended \/ (dispatcher[c].started /\ ~dispatcher[c].paused)
    /\ Commit(_playTrack([World EXCEPT !.dispatcher[c] = NoDispatcher],
                         objs[dispatcher[c].qid].guildID, FALSE))
    /\ result' = NoResult
    /\ UNCHANGED <<calls, requestedBy, ncmds>>

\* one second of playback: dispatcher.streamTime advances
tick(c) ==
    /\ dispatcher[c].alive
    /\ dispatcher[c].started
    /\ ~dispatcher[c].paused
    /\ ~dispatcher[c].ended
    /\ dispatcher[c].streamTime < MaxStreamTime
    /\ Commit([World EXCEPT !.dispatcher[c].streamTime = @ + 1])
    /\ result' = NoResult
    /\ UNCHANGED <<calls, requestedBy, ncmds>>

\* a watcher that does not look at the occupancy of the channel
_handleVoiceStateUpdate_anyOccupancy(oldChannelID, newChannelID, size) ==
    /\ LET hits == SelectSeq(queues,
                      LAMBDA id : objs[id].voiceConnection = oldChannelID)
       IN IF ~options.leaveOnEmpty \/ oldChannelID = Null \/ newChannelID # Null
             \/ hits = <<>>
          THEN Commit(World)
          ELSE LET queue == objs[Head(hits)]
                   w1 == leave(World, queue.voiceConnection)
                   w2 == [w1 EXCEPT !.queues =
                            SelectSeq(@, LAMBDA id : objs[id].guildID # queue.guildID)]
               IN Commit(emit(w2, Event("channelEmpty", Head(hits))))
    /\ result' = NoResult
    /\ UNCHANGED <<calls, requestedBy, ncmds>>

\* size is queue.voiceConnection.channel.members.size after the change
_handleVoiceStateUpdate(oldChannelID, newChannelID, size) ==
    /\ LET hits == SelectSeq(queues,
                      LAMBDA id : objs[id].voiceConnection = oldChannelID)
       IN IF ~options.leaveOnEmpty \/ oldChannelID = Null \/ newChannelID # Null
             \/ hits = <<>> \/ size > 1
          THEN Commit(World)
          ELSE LET queue == objs[Head(hits)]
                   w1 == leave(World, queue.voiceConnection)
                   w2 == [w1 EXCEPT !.queues =
                            SelectSeq(@, LAMBDA id : objs[id].guildID # queue.guildID)]
               IN Commit(emit(w2, Event("channelEmpty", Head(hits))))
    /\ result' = NoResult
    /\ UNCHANGED <<calls, requestedBy, ncmds>>

\* ------------------------------------------------------- specification
\* new Player(client, options) with the default options
Init ==
    /\ queues = <<>>
    /\ objs = <<>>
    /\ options = defaultPlayerOptions
    /\ joined = {}
    /\ dispatcher = [c \in Channels |-> NoDispatcher]
    /\ timers = <<>>
    /\ calls = <<>>
    /\ requestedBy = [t \in Tracks \cup Found |-> Null]
    /\ emitted = <<>>
    /\ result = NoResult
    /\ ncmds = 0

Next ==
    \/ \E vc \in Channels \cup {Null}, t \in PlayTracks \cup Queries, u \in Users :
          play(vc, t, u)
    \/ \E i \in 1..Len(calls) : playJoined(i)
    \/ \E i \in 1..Len(calls), o \in SearchOutcomes : playSearched(i, o)
    \/ \E g \in Guilds, nf \in NewFiltersArgs : updateFilters(g, nf)
    \/ \E g \in Guilds : pause(g)
    \/ \E g \in Guilds : resume(g)
    \/ \E g \in Guilds, sync \in BOOLEAN : stop(g, sync)
    \/ \E g \in Guilds, p \in Percents : setVolume(g, p)
    \/ \E g \in Guilds : getQueue(g)
    \/ \E g \in Guilds : isPlaying(g)
    \/ \E g \in Guilds, q \in Queries, u \in Users : addToQueue(g, q, u)
    \/ \E g \in Guilds, ts \in QueueArgs : setQueue(g, ts)
    \/ \E g \in Guilds : clearQueue(g)
    \/ \E g \in Guilds, sync \in BOOLEAN : skip(g, sync)
    \/ \E g \in Guilds : nowPlaying(g)
    \/ \E g \in Guilds, e \in BOOLEAN : setRepeatMode(g, e)
    \/ \E g \in Guilds : shuffle(g)
    \/ \E g \in Guilds, t \in RemoveArgs : remove(g, t)
    \/ attach
    \/ \E c \in Channels : start(c)
    \/ \E c \in Channels : finish(c)
    \/ \E e \in VoiceStateUpdates : _handleVoiceStateUpdate(e.old, e.new, e.size)

Spec == Init /\ [][Next]_vars


\* new Player(client, options): every prop of `options` overrides the default
PlayerOptions ==
    [leaveOnEnd : BOOLEAN, leaveOnStop : BOOLEAN, leaveOnEmpty : BOOLEAN]

InitOptions ==
    /\ queues = <<>>
    /\ objs = <<>>
    /\ options \in PlayerOptions
    /\ joined = {}
    /\ dispatcher = [c \in Channels |-> NoDispatcher]
    /\ timers = <<>>
    /\ calls = <<>>
    /\ requestedBy = [t \in Tracks \cup Found |-> Null]
    /\ emitted = <<>>
    /\ result = NoResult
    /\ ncmds = 0

\* the commands and signals that create, advance and tear down a session
NextOptions ==
    \/ \E vc \in Channels, t \in PlayTracks, u \in Users : play(vc, t, u)
    \/ \E i \in 1..Len(calls) : playJoined(i)
    \/ \E g \in Guilds, sync \in BOOLEAN : stop(g, sync)
    \/ \E g \in Guilds, ts \in QueueArgs : setQueue(g, ts)
    \/ \E g \in Guilds, sync \in BOOLEAN : skip(g, sync)
    \/ \E g \in Guilds, e \in BOOLEAN : setRepeatMode(g, e)
    \/ attach
    \/ \E c \in Channels : start(c)
    \/ \E c \in Channels : finish(c)
    \/ \E e \in VoiceStateUpdates : _handleVoiceStateUpdate(e.old, e.new, e.size)

SpecOptions == InitOptions /\ [][NextOptions]_vars


\* playback with its clock: one session whose stream plays on second by
\* second while the filters are updated
NextSeek ==
    \/ \E vc \in Channels, t \in PlayTracks, u \in Users : play(vc, t, u)
    \/ \E i \in 1..Len(calls) : playJoined(i)
    \/ \E g \in Guilds, nf \in NewFiltersArgs : updateFilters(g, nf)
    \/ \E g \in Guilds : pause(g)
    \/ \E g \in Guilds : resume(g)
    \/ attach
    \/ \E c \in Channels : start(c)
    \/ \E c \in Channels : tick(c)
    \/ \E c \in Channels : finish(c)

SpecSeek == Init /\ [][NextSeek]_vars


\* ---------------------------------------------------------------- claims
\* the Queue objects registered under a key
Sessions(guildID) ==
    {i \in 1..Len(queues) : objs[queues[i]].guildID = guildID}

HasSession(guildID) == Sessions(guildID) # {}

\* the registered Queue object commands for a key act on
SessionOf(guildID) == queues[CHOOSE i \in Sessions(guildID) :
                                \A j \in Sessions(guildID) : i <= j]

\* C1: in every reachable state the registry holds at most one Session per
\* session key; play() for a key that already has a session replaces it.
C1_OneSessionPerKey ==
    \A g \in Guilds : Cardinality(Sessions(g)) <= 1

\* C2: with repeat off and no skip or stop, the finish signal of the current
\* track makes the head of the pending sequence the current track and pops it,
\* for every non-empty pending sequence; the session ends only once the
\* pending sequence is empty.
C2_FifoAdvance ==
    [][\A c \in Channels :
          LET g == objs[dispatcher[c].qid].guildID
              q == SessionOf(g)
          IN (/\ dispatcher[c].alive
              /\ ~dispatcher[c].ended
              /\ HasSession(g)
              /\ ~objs[q].repeatMode
              /\ ~objs[q].stopped
              /\ objs[q].tracks # <<>>
              /\ Head(objs[q].tracks) # Undefined
              /\ finish(c))
             => (/\ queues' = queues
                 /\ objs'[q].playing = Head(objs[q].tracks)
                 /\ objs'[q].tracks = Tail(objs[q].tracks)
                 /\ \A i \in 1..Len(emitted') : emitted'[i].type # "end")]_vars

\* C3: once stop() has set the stopped flag of a session, the track-advance
\* logic requests no further pipeline for that session, whatever its
\* repeatMode and wherever the playback state machine stands.
C3_StopStartsNothing ==
    [][(Len(timers') > Len(timers) /\ timers'[Len(timers')].emit)
          => ~objs'[timers'[Len(timers')].qid].stopped]_vars

\* C4: when the finish signal of a pipeline that skip() ended advances the
\* track, the lastSkipped flag the track-changed event of that advance will
\* carry is still true after the advance.
C4_SkipMarksEvent ==
    [][\A c \in Channels :
          LET g == objs[dispatcher[c].qid].guildID
              q == SessionOf(g)
          IN (/\ dispatcher[c].alive
              /\ dispatcher[c].ended
              /\ HasSession(g)
              /\ objs[q].lastSkipped
              /\ ~objs[q].stopped
              /\ Len(timers') > Len(timers)
              /\ finish(c))
             => objs'[q].lastSkipped]_vars

\* the pipelines of a key that were requested and not yet told to stop: the
\* streams waiting to be attached and the dispatcher that has not been ended
Pipelines(guildID) ==
    Cardinality({i \in 1..Len(timers) : objs[timers[i].qid].guildID = guildID})
    + Cardinality({c \in Channels :
          /\ dispatcher[c].alive
          /\ ~dispatcher[c].ended
          /\ objs[dispatcher[c].qid].guildID = guildID})

\* C5: at most one pipeline is active for a session key at any time: a new
\* pipeline is requested only after the previous one was told to stop.
C5_OnePipeline ==
    \A g \in Guilds : Pipelines(g) <= 1


\* C6: updateFilters on an existing session changes only the filter toggles
\* and the pipeline: the registry, the current track, the pending sequence and
\* every other field stay as they were, no event is emitted, and the pipeline
\* it requests streams the current track and announces no track change; the
\* attach and the start signal of such a pipeline change no session either.
C6_UpdateFiltersFrame ==
    [][/\ \A g \in Guilds, nf \in NewFiltersArgs :
             (HasSession(g) /\ result'.op = "updateFilters" /\ updateFilters(g, nf))
             => LET q == SessionOf(g) IN
                /\ queues' = queues
                /\ objs' = [objs EXCEPT ![q].filters = objs'[q].filters]
                /\ emitted' = <<>>
                /\ dispatcher' = dispatcher
                /\ \/ timers' = timers
                   \/ /\ Len(timers') = Len(timers) + 1
                      /\ SubSeq(timers', 1, Len(timers)) = timers
                      /\ timers'[Len(timers')].qid = q
                      /\ timers'[Len(timers')].track = objs[q].playing
                      /\ ~timers'[Len(timers')].emit
       /\ (Len(timers') < Len(timers) /\ attach)
             => (queues' = queues /\ objs' = objs /\ emitted' = <<>>)
       /\ \A c \in Channels :
             (dispatcher[c].alive /\ ~dispatcher[c].started /\ ~dispatcher[c].emit
              /\ start(c))
             => (queues' = queues /\ objs' = objs /\ emitted' = <<>>)]_vars

\* updateFilters has restarted the pipeline of a session that has pending
\* tracks, and the stream of the restart is attached while the session lives
C6_Witness ==
    /\ HasSession("g1")
    /\ objs[SessionOf("g1")].filters["bassboost"]
    /\ objs[SessionOf("g1")].tracks # <<>>
    /\ dispatcher["c1"].alive
    /\ dispatcher["c1"].chain = {"bassboost"}
    /\ dispatcher["c1"].track = objs[SessionOf("g1")].playing

\* C7: while repeatMode is true every finish signal restarts the same current
\* track at seek 0: the registry, the current track and the pending sequence
\* stay as they were, no event (no end, no stop) is emitted, and a pipeline
\* for the current track is requested at seek 0, whatever the length of the
\* pending sequence.
C7_RepeatRestarts ==
    [][\A c \in Channels :
          LET g == objs[dispatcher[c].qid].guildID
              q == SessionOf(g)
          IN (/\ dispatcher[c].alive
              /\ HasSession(g)
              /\ objs[q].repeatMode
              /\ finish(c))
             => (/\ queues' = queues
                 /\ objs'[q].playing = objs[q].playing
                 /\ objs'[q].tracks = objs[q].tracks
                 /\ joined' = joined
                 /\ emitted' = <<>>
                 /\ objs[q].playing \notin {Null, Undefined}
                    => /\ Len(timers') = Len(timers) + 1
                       /\ timers'[Len(timers')].qid = q
                       /\ timers'[Len(timers')].track = objs[q].playing
                       /\ timers'[Len(timers')].seek = 0)]_vars

\* a repeat restart has started: the same track again, the session registered
C7_Witness ==
    /\ HasSession("g1")
    /\ \E i \in 1..Len(emitted) :
          /\ emitted[i].type = "trackChanged"
          /\ emitted[i].repeatMode
          /\ emitted[i].nowPlaying = emitted[i].wasPlaying
          /\ emitted[i].nowPlaying = objs[SessionOf("g1")].playing

\* C8: pause, resume, nowPlaying and skip on an existing session return the
\* session's current track, the track the pipeline streams (for skip the
\* track that was skipped).
C8_ReturnsCurrent ==
    [][\A g \in Guilds :
          (/\ HasSession(g)
           /\ result'.status = "resolved"
           /\ \/ pause(g) \/ resume(g) \/ nowPlaying(g)
              \/ \E sync \in BOOLEAN : skip(g, sync))
          => result'.value = objs[SessionOf(g)].playing]_vars

\* C9: every command completes with a success value or a failure: no command
\* leaves its promise pending for ever.
C9_EveryCommandSettles ==
    result.status # "pending"

\* the commands other than play that resolve the session by key
SessionCommand(g) ==
    \/ result'.op = "updateFilters" /\ \E nf \in NewFiltersArgs : updateFilters(g, nf)
    \/ result'.op = "pause" /\ pause(g)
    \/ result'.op = "resume" /\ resume(g)
    \/ result'.op = "stop" /\ \E sync \in BOOLEAN : stop(g, sync)
    \/ result'.op = "setVolume" /\ \E p \in Percents : setVolume(g, p)
    \/ result'.op = "addToQueue" /\ \E q \in Queries, u \in Users : addToQueue(g, q, u)
    \/ result'.op = "setQueue" /\ \E ts \in QueueArgs : setQueue(g, ts)
    \/ result'.op = "clearQueue" /\ clearQueue(g)
    \/ result'.op = "skip" /\ \E sync \in BOOLEAN : skip(g, sync)
    \/ result'.op = "nowPlaying" /\ nowPlaying(g)
    \/ result'.op = "setRepeatMode" /\ \E e \in BOOLEAN : setRepeatMode(g, e)
    \/ result'.op = "shuffle" /\ shuffle(g)
    \/ result'.op = "remove" /\ \E t \in RemoveArgs : remove(g, t)

\* C10: every command other than play, issued for a key with no registered
\* session, is rejected with "Not playing" and changes nothing: the registry,
\* every Queue object, the connections, dispatchers and pending streams stay
\* as they were and no event is emitted.
C10_NoSessionNoEffect ==
    [][\A g \in Guilds :
          (~HasSession(g) /\ ncmds' = ncmds + 1 /\ SessionCommand(g))
          => (/\ result'.status = "rejected"
              /\ result'.value = "Not playing"
              /\ emitted' = <<>>
              /\ UNCHANGED <<queues, objs, options, joined, dispatcher, timers,
                             calls, requestedBy>>)]_vars

\* a command was rejected for a key without a session while the session of
\* another key is registered and playing
C10_Witness ==
    /\ result.status = "rejected"
    /\ result.value = "Not playing"
    /\ HasSession("g1")
    /\ dispatcher["c1"].alive

\* C11: play() delivers its result only after the start signal of the pipeline
\* it requested: when play() resolves a track, a started dispatcher streams
\* that track and no stream of that track is still waiting to be attached.
C11_PlayResolvesAfterStart ==
    (result.op = "play" /\ result.status = "resolved")
    => /\ \E c \in Channels :
             /\ dispatcher[c].alive
             /\ dispatcher[c].started
             /\ dispatcher[c].track = result.value
       /\ \A i \in 1..Len(timers) : timers[i].track # result.value

\* the registered Queue objects bound to a voice channel
BoundTo(channelID) ==
    {i \in 1..Len(queues) : objs[queues[i]].voiceConnection = channelID}

C13_AddToQueueAppends ==
    [][\A g \in Guilds, q \in Queries, u \in Users :
          (HasSession(g) /\ result'.op = "addToQueue" /\ addToQueue(g, q, u))
          => LET s == SessionOf(g) IN
             \/ /\ result'.status = "resolved"
                /\ result'.value \in Found
                /\ objs'[s].tracks = Append(objs[s].tracks, result'.value)
                /\ requestedBy'[result'.value] = u
             \/ /\ result'.status = "rejected"
                /\ result'.value = "Track not found"
                /\ objs'[s].tracks = objs[s].tracks]_vars

\* C14: after clearQueue() on an existing session the pending sequence holds
\* the current track, the one the pipeline streams, and nothing else, whatever
\* its length was before.
C14_ClearKeepsCurrent ==
    [][\A g \in Guilds :
          (HasSession(g) /\ result'.op = "clearQueue" /\ clearQueue(g))
          => objs'[SessionOf(g)].tracks = <<objs[SessionOf(g)].playing>>]_vars

\* the position (from 1) of the entry remove() is asked to delete: the index
\* when it is in range, the first occurrence of the track; 0 when there is none
Matched(tracks, track) ==
    IF track.isNumber
    THEN IF track.index < Len(tracks) THEN track.index + 1 ELSE 0
    ELSE IF \E i \in 1..Len(tracks) : tracks[i] = track.ref
         THEN CHOOSE i \in 1..Len(tracks) :
                 /\ tracks[i] = track.ref
                 /\ \A j \in 1..(i - 1) : tracks[j] # track.ref
         ELSE 0

\* C15: remove() deletes exactly the one matched entry of a pending sequence
\* of tracks, the others keep their order and the length drops by 1, also when
\* the track occurs more than once; with an index out of range or a track that
\* is absent the sequence is unmodified and no match is returned.
C15_RemoveExactlyOne ==
    [][\A g \in Guilds, t \in RemoveArgs :
          (/\ HasSession(g)
           /\ result'.op = "remove"
           /\ \A i \in 1..Len(objs[SessionOf(g)].tracks) :
                 objs[SessionOf(g)].tracks[i] # Undefined
           /\ remove(g, t))
          => LET s == SessionOf(g)
                 pos == Matched(objs[s].tracks, t)
             IN IF pos = 0
                THEN /\ objs'[s].tracks = objs[s].tracks
                     /\ result'.value \in {Null, Undefined}
                ELSE /\ objs'[s].tracks = RemoveAt(objs[s].tracks, pos)
                     /\ result'.value = objs[s].tracks[pos]]_vars

\* the number of occurrences of x in s
Count(s, x) == Cardinality({i \in 1..Len(s) : s[i] = x})

\* C16: shuffle() on an existing session keeps the head of the sequence in
\* place and leaves a permutation of the previous sequence: the same length
\* and the same tracks as often as before, for every prior length.
C16_ShufflePermutes ==
    [][\A g \in Guilds :
          (HasSession(g) /\ result'.op = "shuffle" /\ shuffle(g))
          => LET s == SessionOf(g) IN
             /\ Len(objs'[s].tracks) = Len(objs[s].tracks)
             /\ \A x \in Tracks \cup Found \cup {Undefined} :
                   Count(objs'[s].tracks, x) = Count(objs[s].tracks, x)
             /\ objs[s].tracks # <<>>
                => Head(objs'[s].tracks) = Head(objs[s].tracks)]_vars

\* C17: the keys of a session's filter set are the keys of `filters` from its
\* creation on: no updateFilters call, whatever its argument map, adds or
\* removes a key.
C17_FilterKeysFixed ==
    \A i \in 1..Len(objs) : DOMAIN objs[i].filters = filters

\* C18: the pipeline updateFilters requests streams the current track with
\* the filters enabled after the merge and seeks to the position reached in
\* the track: the seek of the stream being played plus the time it has played.
C18_SeekContinuous ==
    [][\A g \in Guilds, nf \in NewFiltersArgs :
          (/\ HasSession(g)
           /\ result'.op = "updateFilters"
           /\ Len(timers') > Len(timers)
           /\ updateFilters(g, nf))
          => LET q == SessionOf(g)
                 d == dispatcher[objs[q].voiceConnection]
                 t == timers'[Len(timers')]
             IN /\ t.track = objs[q].playing
                /\ t.chain = {f \in DOMAIN objs'[q].filters : objs'[q].filters[f]}
                /\ t.seek = d.seek + d.streamTime]_vars

\* what a teardown of the session of guildID, bound to channel c, must leave
TornDown(guildID, c, stopped) ==
    /\ \A i \in 1..Len(queues') : objs'[queues'[i]].guildID # guildID
    /\ Len(emitted') = 1
    /\ emitted'[1].type = IF stopped THEN "stop" ELSE "end"
    /\ IF (stopped /\ options.leaveOnStop) \/ (~stopped /\ options.leaveOnEnd)
       THEN c \notin joined'
       ELSE c \in joined' /\ joined' = joined

\* C19: when the handling of a finish signal tears a session down (fewer than
\* two pending tracks, repeat off), exactly one event is emitted, stop if the
\* stopped flag is set and end otherwise; the channel is left iff (stopped and
\* leaveOnStop) or (not stopped and leaveOnEnd); the session is removed from
\* the registry in both cases.  The finish signal comes by itself or is
\* delivered inside the stop() or skip() that ended the dispatcher.
C19_TeardownEvents ==
    [][\A g \in Guilds :
          HasSession(g)
          => LET q == SessionOf(g)
                 c == objs[q].voiceConnection
             IN /\ (/\ ~objs[q].repeatMode
                    /\ Len(objs[q].tracks) < 2
                    /\ dispatcher[c].alive
                    /\ objs[dispatcher[c].qid].guildID = g
                    /\ result'.op = "-"
                    /\ finish(c))
                   => TornDown(g, c, objs[q].stopped)
                /\ (/\ ~objs[q].repeatMode
                    /\ dispatcher[c].alive
                    /\ ~dispatcher[c].ended
                    /\ result'.op = "stop"
                    /\ stop(g, TRUE))
                   => TornDown(g, c, TRUE)
                /\ (/\ ~objs[q].repeatMode
                    /\ Len(objs[q].tracks) < 2
                    /\ dispatcher[c].alive
                    /\ ~dispatcher[c].ended
                    /\ result'.op = "skip"
                    /\ skip(g, TRUE))
                   => TornDown(g, c, objs[q].stopped)]_vars

\* a stopped session was torn down by a player that stays in the channel
C19_Witness ==
    /\ ~options.leaveOnStop
    /\ options.leaveOnEnd
    /\ \E i \in 1..Len(emitted) : emitted[i].type = "stop"
    /\ ~HasSession("g1")
    /\ "c1" \in joined

\* C20: whenever the timer callback hands a stream to the connection of a
\* registered session, the stream is the one of the session's current track at
\* that moment, and the current track is a track.  Stated for a player that
\* has created one session only, so that no second play() is involved.
C20_AttachStreamsCurrent ==
    [][(/\ timers # <<>>
        /\ Len(objs) = 1
        /\ Len(timers') < Len(timers)
        /\ \E i \in 1..Len(queues) : queues[i] = Head(timers).qid
        /\ attach)
       => /\ objs[Head(timers).qid].playing \in Tracks \cup Found
          /\ Head(timers).track = objs[Head(timers).qid].playing]_vars

\* C21: for every registered session whose connection has a live dispatcher
\* streaming for it, the paused flag of the session is true exactly when that
\* dispatcher is paused, also after pause() followed by updateFilters, skip
\* or a track advance.  Stated for a player that has created one session.
C21_PausedFlagAgrees ==
    \A i \in 1..Len(queues) :
        LET q == queues[i]
            d == dispatcher[objs[q].voiceConnection]
        IN (Len(objs) = 1 /\ d.alive /\ d.qid = q)
           => (objs[q].paused <=> d.paused)

====
